---- MODULE Spec2Model ----
(***************************************************************************)
(* A model of two pieces of huggingface_hub:                               *)
(*   - src/huggingface_hub/utils/_auth.py : token resolution (vault,       *)
(*     environment, token file) and the INI profile store;                 *)
(*   - utils/generate_task_parameters.py : the script that keeps the       *)
(*     InferenceClient task methods in sync with the *Parameters           *)
(*     dataclasses.                                                        *)
(* Python strings are sequences of one-character strings; Python's None is *)
(* the sentinel sequence None, which is not a string of the model because  *)
(* "None" is not a character.                                              *)
(***************************************************************************)
EXTENDS Integers, Sequences, FiniteSets, TLC

----------------------------------------------------------------------------
(* Bounds *)

NumThreads == 2
MaxCalls == 2
MaxLen == 2
MaxTokenLen == 2
MaxOps == 4
MaxTasks == 2
MaxBody == 3
MaxStmts == 3
MaxDepth == 2

----------------------------------------------------------------------------
(* Python values *)

None == <<"None">>

\* a call that has not returned yet has no value
Pending == <<"Pending">>

\* Python truthiness of an Optional[str]
Truthy(v) == v # None /\ v # <<>>

\* Python `a or b` on values
Or(a, b) == IF Truthy(a) THEN a ELSE b

\* all strings over the characters cs of length at most n
RECURSIVE StringsUpTo(_, _)
StringsUpTo(cs, n) ==
    IF n = 0 THEN {<<>>}
    ELSE LET shorter == StringsUpTo(cs, n - 1)
         IN shorter \cup {Append(s, c) : s \in {x \in shorter : Len(x) = n - 1}, c \in cs}

\* str.replace(c, "") for a one-character c
RECURSIVE RemoveChar(_, _)
RemoveChar(s, c) ==
    IF s = <<>> THEN <<>>
    ELSE IF Head(s) = c THEN RemoveChar(Tail(s), c)
    ELSE <<Head(s)>> \o RemoveChar(Tail(s), c)

\* the characters str.strip() removes
Whitespace == {" ", "\t", "\n", "\r"}

RECURSIVE LStrip(_)
LStrip(s) ==
    IF s = <<>> THEN <<>>
    ELSE IF Head(s) \in Whitespace THEN LStrip(Tail(s))
    ELSE s

RECURSIVE RStrip(_)
RStrip(s) ==
    IF s = <<>> THEN <<>>
    ELSE IF s[Len(s)] \in Whitespace THEN RStrip(SubSeq(s, 1, Len(s) - 1))
    ELSE s

\* str.strip()
Strip(s) == RStrip(LStrip(s))

\* _clean_token: token.replace("\r", "").replace("\n", "").strip() or None
clean_token(token) ==
    IF token = None THEN None
    ELSE Or(Strip(RemoveChar(RemoveChar(token, "\r"), "\n")), None)

----------------------------------------------------------------------------
(* Token resolution: get_token and the Colab vault *)

VARIABLES
    threads,                  \* the threads of the process that call get_token
    is_google_colab,          \* result of is_google_colab()
    is_colab_enterprise,      \* result of is_colab_enterprise()
    colab_importable,         \* whether `from google.colab import userdata` succeeds
    HF_TOKEN,                 \* os.environ.get("HF_TOKEN")
    HUGGING_FACE_HUB_TOKEN,   \* os.environ.get("HUGGING_FACE_HUB_TOKEN")
    HF_TOKEN_PATH,            \* content of the token file, None when the file is missing
    IS_GOOGLE_COLAB_CHECKED,  \* module global
    GOOGLE_COLAB_SECRET,      \* module global
    GOOGLE_COLAB_SECRET_LOCK, \* holder of the lock, 0 when free
    pc,                       \* per thread: position inside get_token
    from_colab,               \* per thread: what _get_token_from_google_colab returned
    from_environment,         \* per thread: what _get_token_from_environment returned
    token,                    \* per thread: what get_token returned
    exc,                      \* per thread: the exception in flight, None when none
    ncalls,                   \* per thread: number of get_token calls started
    vault_calls,              \* number of userdata.get("HF_TOKEN") invocations
    vault_log,                \* outcomes of the completed userdata.get invocations
    after_lookup,             \* per thread: the call started after a lookup completed
    vault_failed              \* per thread: the call's own lookup raised

authVars == <<threads, is_google_colab, is_colab_enterprise, colab_importable,
              HF_TOKEN, HUGGING_FACE_HUB_TOKEN, HF_TOKEN_PATH,
              IS_GOOGLE_COLAB_CHECKED, GOOGLE_COLAB_SECRET, GOOGLE_COLAB_SECRET_LOCK,
              pc, from_colab, from_environment, token, exc, ncalls,
              vault_calls, vault_log, after_lookup, vault_failed>>

authEnv == <<threads, is_google_colab, is_colab_enterprise, colab_importable,
             HF_TOKEN, HUGGING_FACE_HUB_TOKEN, HF_TOKEN_PATH>>

\* the exceptions userdata.get raises, as the handlers of the source name them
VaultErrors == {<<"NotebookAccessError">>, <<"SecretNotFoundError">>, <<"ColabError">>}

\* the `except` clauses without the one for ColabError
HandledErrorsWithoutColabError == {<<"NotebookAccessError">>, <<"SecretNotFoundError">>}

\* the `except` clauses of _get_token_from_google_colab
HandledErrors == {<<"NotebookAccessError">>, <<"SecretNotFoundError">>, <<"ColabError">>}

\* what the vault can hold under HF_TOKEN
VaultSecrets == {<<"V">>, <<"V", "\n">>, <<" ">>}

\* module-level state after import of _auth.py, all threads outside get_token
AuthStart ==
    /\ IS_GOOGLE_COLAB_CHECKED = FALSE
    /\ GOOGLE_COLAB_SECRET = None
    /\ GOOGLE_COLAB_SECRET_LOCK = 0
    /\ pc = [t \in threads |-> "idle"]
    /\ from_colab = [t \in threads |-> Pending]
    /\ from_environment = [t \in threads |-> Pending]
    /\ token = [t \in threads |-> Pending]
    /\ exc = [t \in threads |-> None]
    /\ ncalls = [t \in threads |-> 0]
    /\ vault_calls = 0
    /\ vault_log = <<>>
    /\ after_lookup = [t \in threads |-> FALSE]
    /\ vault_failed = [t \in threads |-> FALSE]

\* a thread calls get_token()
get_token(t) ==
    /\ pc[t] = "idle"
    /\ ncalls[t] < MaxCalls
    /\ ncalls' = [ncalls EXCEPT ![t] = @ + 1]
    /\ pc' = [pc EXCEPT ![t] = "colab"]
    /\ from_colab' = [from_colab EXCEPT ![t] = Pending]
    /\ from_environment' = [from_environment EXCEPT ![t] = Pending]
    /\ token' = [token EXCEPT ![t] = Pending]
    /\ after_lookup' = [after_lookup EXCEPT ![t] = vault_log # <<>>]
    /\ vault_failed' = [vault_failed EXCEPT ![t] = FALSE]
    /\ UNCHANGED <<authEnv, IS_GOOGLE_COLAB_CHECKED, GOOGLE_COLAB_SECRET,
                   GOOGLE_COLAB_SECRET_LOCK, exc, vault_calls, vault_log>>

\* where get_token goes once _get_token_from_google_colab has returned v:
\* `v or _get_token_from_environment() or ...`
AfterColab(v) == IF Truthy(v) THEN "done" ELSE "environment"

\* _get_token_from_google_colab returns v to get_token
ColabReturns(t, v) ==
    /\ from_colab' = [from_colab EXCEPT ![t] = v]
    /\ token' = [token EXCEPT ![t] = IF Truthy(v) THEN v ELSE Pending]
    /\ pc' = [pc EXCEPT ![t] = AfterColab(v)]

\* _get_token_from_google_colab, line 59: not a Colab, or Colab Enterprise
colab_guard(t) ==
    /\ pc[t] = "colab"
    /\ IF ~is_google_colab \/ is_colab_enterprise
       THEN ColabReturns(t, None)
       ELSE /\ pc' = [pc EXCEPT ![t] = "acquire"]
            /\ UNCHANGED <<from_colab, token>>
    /\ UNCHANGED <<authEnv, IS_GOOGLE_COLAB_CHECKED, GOOGLE_COLAB_SECRET,
                   GOOGLE_COLAB_SECRET_LOCK, from_environment, exc, ncalls,
                   vault_calls, vault_log, after_lookup, vault_failed>>

\* a lock that never blocks
LockFreeUnguarded(t) == TRUE

\* Lock.acquire may proceed
LockFree(t) == GOOGLE_COLAB_SECRET_LOCK = 0

\* `with _GOOGLE_COLAB_SECRET_LOCK:` entry
colab_acquire(t) ==
    /\ pc[t] = "acquire"
    /\ LockFree(t)
    /\ GOOGLE_COLAB_SECRET_LOCK' = t
    /\ pc' = [pc EXCEPT ![t] = "checked"]
    /\ UNCHANGED <<authEnv, IS_GOOGLE_COLAB_CHECKED, GOOGLE_COLAB_SECRET,
                   from_colab, from_environment, token, exc, ncalls,
                   vault_calls, vault_log, after_lookup, vault_failed>>

\* leaving the `with` block: the lock is released if this thread holds it
Released(t) == IF GOOGLE_COLAB_SECRET_LOCK = t THEN 0 ELSE GOOGLE_COLAB_SECRET_LOCK

\* line 71: `if _IS_GOOGLE_COLAB_CHECKED: return _GOOGLE_COLAB_SECRET`
colab_checked(t) ==
    /\ pc[t] = "checked"
    /\ IF IS_GOOGLE_COLAB_CHECKED
       THEN /\ ColabReturns(t, GOOGLE_COLAB_SECRET)
            /\ GOOGLE_COLAB_SECRET_LOCK' = Released(t)
       ELSE /\ pc' = [pc EXCEPT ![t] = "import"]
            /\ UNCHANGED <<from_colab, token, GOOGLE_COLAB_SECRET_LOCK>>
    /\ UNCHANGED <<authEnv, IS_GOOGLE_COLAB_CHECKED, GOOGLE_COLAB_SECRET,
                   from_environment, exc, ncalls, vault_calls, vault_log,
                   after_lookup, vault_failed>>

\* lines 74-78: import of google.colab, `except ImportError: return None`
colab_import(t) ==
    /\ pc[t] = "import"
    /\ IF colab_importable
       THEN /\ pc' = [pc EXCEPT ![t] = "userdata"]
            /\ UNCHANGED <<from_colab, token, GOOGLE_COLAB_SECRET_LOCK>>
       ELSE /\ ColabReturns(t, None)
            /\ GOOGLE_COLAB_SECRET_LOCK' = Released(t)
    /\ UNCHANGED <<authEnv, IS_GOOGLE_COLAB_CHECKED, GOOGLE_COLAB_SECRET,
                   from_environment, exc, ncalls, vault_calls, vault_log,
                   after_lookup, vault_failed>>

\* lines 81-82: userdata.get("HF_TOKEN") returns a secret or raises
colab_userdata_get(t) ==
    /\ pc[t] = "userdata"
    /\ vault_calls' = vault_calls + 1
    /\ \E outcome \in VaultSecrets \cup VaultErrors :
          /\ vault_log' = Append(vault_log, outcome)
          /\ IF outcome \in VaultErrors
             THEN /\ exc' = [exc EXCEPT ![t] = outcome]
                  /\ vault_failed' = [vault_failed EXCEPT ![t] = TRUE]
                  /\ pc' = [pc EXCEPT ![t] = "except"]
                  /\ UNCHANGED GOOGLE_COLAB_SECRET
             ELSE /\ GOOGLE_COLAB_SECRET' = clean_token(outcome)
                  /\ pc' = [pc EXCEPT ![t] = "mark"]
                  /\ UNCHANGED <<exc, vault_failed>>
    /\ UNCHANGED <<authEnv, IS_GOOGLE_COLAB_CHECKED, GOOGLE_COLAB_SECRET_LOCK,
                   from_colab, from_environment, token, ncalls, after_lookup>>

\* lines 83-110: the three handlers; an exception none of them names leaves
\* the `with` block and get_token
colab_except(t) ==
    /\ pc[t] = "except"
    /\ IF exc[t] \in HandledErrors
       THEN /\ GOOGLE_COLAB_SECRET' = None
            /\ exc' = [exc EXCEPT ![t] = None]
            /\ pc' = [pc EXCEPT ![t] = "mark"]
            /\ UNCHANGED GOOGLE_COLAB_SECRET_LOCK
       ELSE /\ pc' = [pc EXCEPT ![t] = "raised"]
            /\ GOOGLE_COLAB_SECRET_LOCK' = Released(t)
            /\ UNCHANGED <<GOOGLE_COLAB_SECRET, exc>>
    /\ UNCHANGED <<authEnv, IS_GOOGLE_COLAB_CHECKED, from_colab, from_environment,
                   token, ncalls, vault_calls, vault_log, after_lookup, vault_failed>>

\* line 112: _IS_GOOGLE_COLAB_CHECKED = True
colab_mark(t) ==
    /\ pc[t] = "mark"
    /\ IS_GOOGLE_COLAB_CHECKED' = TRUE
    /\ pc' = [pc EXCEPT ![t] = "return"]
    /\ UNCHANGED <<authEnv, GOOGLE_COLAB_SECRET, GOOGLE_COLAB_SECRET_LOCK,
                   from_colab, from_environment, token, exc, ncalls,
                   vault_calls, vault_log, after_lookup, vault_failed>>

\* line 113: return _GOOGLE_COLAB_SECRET, leaving the `with` block
colab_return(t) ==
    /\ pc[t] = "return"
    /\ ColabReturns(t, GOOGLE_COLAB_SECRET)
    /\ GOOGLE_COLAB_SECRET_LOCK' = Released(t)
    /\ UNCHANGED <<authEnv, IS_GOOGLE_COLAB_CHECKED, GOOGLE_COLAB_SECRET,
                   from_environment, exc, ncalls, vault_calls, vault_log,
                   after_lookup, vault_failed>>

\* _get_token_from_environment
get_token_from_environment(primary, alias) == clean_token(Or(primary, alias))

\* _get_token_from_file: FileNotFoundError gives None
get_token_from_file(content) == clean_token(content)

\* get_token, second operand of the `or` chain
environment(t) ==
    /\ pc[t] = "environment"
    /\ LET v == get_token_from_environment(HF_TOKEN, HUGGING_FACE_HUB_TOKEN)
       IN /\ from_environment' = [from_environment EXCEPT ![t] = v]
          /\ token' = [token EXCEPT ![t] = IF Truthy(v) THEN v ELSE Pending]
          /\ pc' = [pc EXCEPT ![t] = IF Truthy(v) THEN "done" ELSE "file"]
    /\ UNCHANGED <<authEnv, IS_GOOGLE_COLAB_CHECKED, GOOGLE_COLAB_SECRET,
                   GOOGLE_COLAB_SECRET_LOCK, from_colab, exc, ncalls,
                   vault_calls, vault_log, after_lookup, vault_failed>>

\* get_token, third operand of the `or` chain
file(t) ==
    /\ pc[t] = "file"
    /\ token' = [token EXCEPT ![t] = get_token_from_file(HF_TOKEN_PATH)]
    /\ pc' = [pc EXCEPT ![t] = "done"]
    /\ UNCHANGED <<authEnv, IS_GOOGLE_COLAB_CHECKED, GOOGLE_COLAB_SECRET,
                   GOOGLE_COLAB_SECRET_LOCK, from_colab, from_environment, exc,
                   ncalls, vault_calls, vault_log, after_lookup, vault_failed>>

\* the caller takes the result; the thread may call get_token again
get_token_return(t) ==
    /\ pc[t] = "done"
    /\ ncalls[t] < MaxCalls
    /\ pc' = [pc EXCEPT ![t] = "idle"]
    /\ UNCHANGED <<authEnv, IS_GOOGLE_COLAB_CHECKED, GOOGLE_COLAB_SECRET,
                   GOOGLE_COLAB_SECRET_LOCK, from_colab, from_environment, token,
                   exc, ncalls, vault_calls, vault_log, after_lookup, vault_failed>>

AuthNext ==
    \E t \in threads :
        \/ get_token(t)
        \/ colab_guard(t)
        \/ colab_acquire(t)
        \/ colab_checked(t)
        \/ colab_import(t)
        \/ colab_userdata_get(t)
        \/ colab_except(t)
        \/ colab_mark(t)
        \/ colab_return(t)
        \/ environment(t)
        \/ file(t)
        \/ get_token_return(t)

----------------------------------------------------------------------------
(* The profile store: an INI file read and written with configparser *)

VARIABLES
    profiles_exists,   \* whether the file HF_PROFILES_PATH exists
    profiles_ini,      \* the file's sections: name -> text written for hf_token
    profile_op,        \* the last operation: "none", "save" or "get"
    profile_name,      \* its profile_name argument
    profile_result,    \* what the last _get_token_from_profile returned
    profile_raised,    \* whether the last operation raised ValueError
    profile_saved,     \* name -> token of the last completed _save_token_to_profile
    profile_ops        \* number of operations performed

profileVars == <<profiles_exists, profiles_ini, profile_op, profile_name,
                 profile_result, profile_raised, profile_saved, profile_ops>>

ProfileNames == {"default", "work", "DEFAULT"}

\* the characters of the tokens handed to _save_token_to_profile
TokenChars == {"a", " ", "\n", "%"}

\* a dict with no key
EmptyDict == [k \in {} |-> <<>>]

\* str.split("\n")
RECURSIVE SplitLines(_)
SplitLines(s) ==
    IF \A i \in 1..Len(s) : s[i] # "\n" THEN <<s>>
    ELSE LET i == CHOOSE j \in 1..Len(s) : s[j] = "\n" /\ \A k \in 1..(j - 1) : s[k] # "\n"
         IN <<SubSeq(s, 1, i - 1)>> \o SplitLines(SubSeq(s, i + 1, Len(s)))

\* "\n".join(lines)
RECURSIVE JoinLines(_)
JoinLines(lines) ==
    IF Len(lines) = 1 THEN lines[1]
    ELSE lines[1] \o <<"\n">> \o JoinLines(Tail(lines))

\* ConfigParser.write then ConfigParser.read of one value: the value is
\* written with its lines indented, each line is read back stripped, the lines
\* are joined and the result is right-stripped
ini_read_value(text) ==
    LET lines == SplitLines(text)
    IN RStrip(JoinLines([i \in 1..Len(lines) |-> Strip(lines[i])]))

\* str.replace("%%", "")
RECURSIVE RemovePercentPairs(_)
RemovePercentPairs(s) ==
    IF Len(s) < 2 THEN s
    ELSE IF s[1] = "%" /\ s[2] = "%" THEN RemovePercentPairs(SubSeq(s, 3, Len(s)))
    ELSE <<s[1]>> \o RemovePercentPairs(Tail(s))

\* BasicInterpolation.before_set accepts the value (ConfigParser.set raises
\* ValueError otherwise); an empty value is not validated
interpolation_valid(value) ==
    \A i \in 1..Len(RemovePercentPairs(value)) : RemovePercentPairs(value)[i] # "%"

\* BasicInterpolation.before_get on a value without "%(": "%%" becomes "%"
RECURSIVE interpolate(_)
interpolate(raw) ==
    IF raw = <<>> THEN <<>>
    ELSE IF Len(raw) >= 2 /\ raw[1] = "%" /\ raw[2] = "%"
         THEN <<"%">> \o interpolate(SubSeq(raw, 3, Len(raw)))
    ELSE <<raw[1]>> \o interpolate(Tail(raw))

\* _get_profiles: {} when the file is missing or a value cannot be
\* interpolated (configparser.Error), else name -> config.get(name, "hf_token")
\* for every section but DEFAULT
get_profiles ==
    IF ~profiles_exists THEN EmptyDict
    ELSE IF \E n \in DOMAIN profiles_ini : ~interpolation_valid(ini_read_value(profiles_ini[n]))
    THEN EmptyDict
    ELSE [n \in DOMAIN profiles_ini \ {"DEFAULT"} |-> interpolate(ini_read_value(profiles_ini[n]))]

\* _get_token_from_profile
get_token_from_profile(name) ==
    IF name \notin DOMAIN get_profiles THEN None
    ELSE clean_token(get_profiles[name])

\* profiles[profile_name] = token
DictSet(d, k, v) == [n \in DOMAIN d \cup {k} |-> IF n = k THEN v ELSE d[n]]

\* _save_profiles raises ValueError: add_section("DEFAULT"), or set() of a
\* value with a lone "%"
save_profiles_raises(profiles) ==
    \/ "DEFAULT" \in DOMAIN profiles
    \/ \E n \in DOMAIN profiles : ~interpolation_valid(profiles[n])

\* _save_token_to_profile(token, profile_name)
save_token_to_profile(tok, name) ==
    /\ profile_ops < MaxOps
    /\ profile_ops' = profile_ops + 1
    /\ profile_op' = "save"
    /\ profile_name' = name
    /\ profile_result' = Pending
    /\ LET profiles == DictSet(get_profiles, name, tok)
       IN IF save_profiles_raises(profiles)
          THEN /\ profile_raised' = TRUE
               /\ UNCHANGED <<profiles_exists, profiles_ini, profile_saved>>
          ELSE /\ profile_raised' = FALSE
               /\ profiles_exists' = TRUE
               /\ profiles_ini' = profiles
               /\ profile_saved' = DictSet(profile_saved, name, tok)

\* a caller asks _get_token_from_profile(profile_name)
get_token_from_profile_call(name) ==
    /\ profile_ops < MaxOps
    /\ profile_ops' = profile_ops + 1
    /\ profile_op' = "get"
    /\ profile_name' = name
    /\ profile_result' = get_token_from_profile(name)
    /\ profile_raised' = FALSE
    /\ UNCHANGED <<profiles_exists, profiles_ini, profile_saved>>

ProfileTokens == StringsUpTo(TokenChars, MaxTokenLen)

ProfileNext ==
    \/ \E tok \in ProfileTokens, name \in ProfileNames : save_token_to_profile(tok, name)
    \/ \E name \in ProfileNames : get_token_from_profile_call(name)

\* the store is absent, empty, or holds one profile written earlier
ProfileStart ==
    /\ \/ profiles_exists = FALSE /\ profiles_ini = EmptyDict
       \/ profiles_exists = TRUE /\ profiles_ini = EmptyDict
       \/ profiles_exists = TRUE /\ profiles_ini = [n \in {"work"} |-> <<"a", "a">>]
    /\ profile_saved = profiles_ini
    /\ profile_op = "none"
    /\ profile_name = "default"
    /\ profile_result = Pending
    /\ profile_raised = FALSE
    /\ profile_ops = 0

----------------------------------------------------------------------------
(* utils/generate_task_parameters.py: syntax trees *)

(* A Python dict is a sequence of [key, value] records in insertion order.  *)
(* An annotation is a sequence of tokens: identifiers, "[", "]", ",", " "   *)
(* and the quote characters; a quoted forward reference is a quote, one     *)
(* identifier and a quote, and a space only follows a comma.                *)
(* A module is [body |-> top-level statements]. A top-level statement is a  *)
(* SimpleStatementLine [type, body |-> small statements] or a ClassDef      *)
(* [type, name, body]; a class body holds SimpleStatementLines and          *)
(* FunctionDefs [type, name, params, kwonly_params, docstring].             *)
(* A docstring is the sequence of its lines, a line being                   *)
(* [indent |-> leading spaces, text |-> the rest of the line].              *)

DEFAULT_MODULE == "huggingface_hub.inference._generated.types"

\* dict keys in order
Keys(d) == [i \in 1..Len(d) |-> d[i].key]

KeySet(d) == {d[i].key : i \in 1..Len(d)}

\* d[k] for a key of d
DictGet(d, k) == d[CHOOSE i \in 1..Len(d) : d[i].key = k].value

\* d[k] = v: an existing key keeps its position
DictPut(d, k, v) ==
    IF k \in KeySet(d)
    THEN [i \in 1..Len(d) |-> IF d[i].key = k THEN [key |-> k, value |-> v] ELSE d[i]]
    ELSE Append(d, [key |-> k, value |-> v])

\* d.update(e)
RECURSIVE DictUpdate(_, _)
DictUpdate(d, e) ==
    IF e = <<>> THEN d
    ELSE DictUpdate(DictPut(d, Head(e).key, Head(e).value), Tail(e))

\* the elements of a sequence
Range(seq) == {seq[i] : i \in 1..Len(seq)}

\* concatenation of a sequence of sequences
RECURSIVE Flatten(_)
Flatten(seqs) == IF seqs = <<>> THEN <<>> ELSE Head(seqs) \o Flatten(Tail(seqs))

\* the sequences that list the elements of a finite set once each
RECURSIVE Orderings(_)
Orderings(S) ==
    IF S = {} THEN {<<>>}
    ELSE UNION {{<<x>> \o rest : rest \in Orderings(S \ {x})} : x \in S}

\* small statements
Import(module) == [type |-> "Import", module |-> module]
ImportFrom(module, names) == [type |-> "ImportFrom", module |-> module, names |-> names]
AnnAssign(target, annotation) == [type |-> "AnnAssign", target |-> target, annotation |-> annotation]
ExprString(value) == [type |-> "Expr", value |-> value]
Pass == [type |-> "Pass"]

SimpleStatementLine(stmts) == [type |-> "SimpleStatementLine", body |-> stmts]
ClassDef(name, body) == [type |-> "ClassDef", name |-> name, body |-> body]
Param(name, annotation) == [name |-> name, annotation |-> annotation, default |-> "None"]
FunctionDef(name, params, kwonly, docstring) ==
    [type |-> "FunctionDef", name |-> name, params |-> params,
     kwonly_params |-> kwonly, docstring |-> docstring]
Module(body) == [body |-> body]

\* every ClassDef of a module, in traversal order
ClassDefs(module) ==
    SelectSeq(module.body, LAMBDA st : st.type = "ClassDef")

\* every FunctionDef of a module, in traversal order
FunctionDefs(module) ==
    Flatten([i \in 1..Len(ClassDefs(module)) |->
                SelectSeq(ClassDefs(module)[i].body, LAMBDA st : st.type = "FunctionDef")])

\* every ImportFrom of a module, in traversal order
ImportFroms(module) ==
    SelectSeq(Flatten([i \in 1..Len(module.body) |->
                          IF module.body[i].type = "SimpleStatementLine"
                          THEN module.body[i].body ELSE <<>>]),
              LAMBDA st : st.type = "ImportFrom")

----------------------------------------------------------------------------
(* Node visitors *)

\* DataclassFieldCollector._extract_docstring
extract_docstring(body_statements, field_index) ==
    IF field_index + 1 <= Len(body_statements)
    THEN LET next_stmt == body_statements[field_index + 1]
         IN IF /\ next_stmt.type = "SimpleStatementLine"
               /\ \E j \in 1..Len(next_stmt.body) : next_stmt.body[j].type = "Expr"
            THEN LET j == CHOOSE k \in 1..Len(next_stmt.body) :
                              /\ next_stmt.body[k].type = "Expr"
                              /\ \A m \in 1..(k - 1) : next_stmt.body[m].type # "Expr"
                 IN Strip(next_stmt.body[j].value)
            ELSE <<>>
    ELSE <<>>

\* the inner loop of DataclassFieldCollector.visit_ClassDef over the small
\* statements of body_statements[index], from the j-th on
RECURSIVE collect_line(_, _, _, _)
collect_line(parameters, body_statements, index, j) ==
    LET field == body_statements[index]
    IN IF j > Len(field.body) THEN parameters
       ELSE LET stmt == field.body[j]
            IN IF stmt.type = "AnnAssign"
               THEN collect_line(
                        DictPut(parameters, stmt.target,
                                [type |-> stmt.annotation,
                                 docstring |-> extract_docstring(body_statements, index)]),
                        body_statements, index, j + 1)
               ELSE collect_line(parameters, body_statements, index, j + 1)

\* the outer loop of DataclassFieldCollector.visit_ClassDef, from index on
RECURSIVE collect_fields(_, _, _)
collect_fields(parameters, body_statements, index) ==
    IF index > Len(body_statements) THEN parameters
    ELSE IF body_statements[index].type = "SimpleStatementLine"
         THEN collect_fields(collect_line(parameters, body_statements, index, 1),
                             body_statements, index + 1)
    ELSE collect_fields(parameters, body_statements, index + 1)

\* DataclassFieldCollector: visit of the classes of a module, in order
RECURSIVE DataclassFieldCollector(_, _, _)
DataclassFieldCollector(parameters, classes, dataclass_name) ==
    IF classes = <<>> THEN parameters
    ELSE DataclassFieldCollector(
             IF Head(classes).name = dataclass_name
             THEN collect_fields(parameters, Head(classes).body, 1)
             ELSE parameters,
             Tail(classes), dataclass_name)

\* ModulesCollector: visit of the top-level statements of a module, in order
RECURSIVE ModulesCollector(_, _)
ModulesCollector(type_to_module, body) ==
    IF body = <<>> THEN type_to_module
    ELSE LET st == Head(body)
             imports == IF st.type = "SimpleStatementLine"
                        THEN SelectSeq(st.body, LAMBDA x : x.type = "ImportFrom")
                        ELSE <<>>
             entries == Flatten([i \in 1..Len(imports) |->
                                    [k \in 1..Len(imports[i].names) |->
                                        [key |-> imports[i].names[k],
                                         value |-> imports[i].module]]])
         IN ModulesCollector(
                IF st.type = "ClassDef"
                THEN DictPut(type_to_module, st.name, DEFAULT_MODULE)
                ELSE DictUpdate(type_to_module, entries),
                Tail(body))

\* visit_FunctionDef that overlooks the keyword-only parameters
visit_FunctionDef_positional_only(node, method_name) ==
    IF node.name = method_name
    THEN {p.name : p \in Range(node.params)} \ {"self"}
    ELSE {}

\* the names ArgumentsCollector.visit_FunctionDef adds for one definition
visit_FunctionDef(node, method_name) ==
    IF node.name = method_name
    THEN {p.name : p \in Range(node.params \o node.kwonly_params)} \ {"self"}
    ELSE {}

\* ArgumentsCollector: existing_args after the visit of a module
ArgumentsCollector(module, method_name) ==
    UNION {visit_FunctionDef(node, method_name) : node \in Range(FunctionDefs(module))}

\* check_missing_parameters
check_missing_parameters(client_module, params_module, name, type_name) ==
    LET parameters == DataclassFieldCollector(<<>>, ClassDefs(params_module), type_name)
        existing_args == ArgumentsCollector(client_module, name)
    IN SelectSeq(parameters, LAMBDA kv : kv.key \notin existing_args)

----------------------------------------------------------------------------
(* Import synthesis *)

Quotes == {"'", "\""}

Punctuation == {"[", "]", ",", " ", "|", "."} \cup Quotes

\* the names of the builtins that are types, among the identifiers of the model
builtin_types == {"str", "int", "bool", "float", "bytes", "list", "dict"}

\* str.strip("\"'") on tokens
RECURSIVE StripQuotes(_)
StripQuotes(s) ==
    IF s = <<>> THEN <<>>
    ELSE IF Head(s) \in Quotes THEN StripQuotes(Tail(s))
    ELSE IF s[Len(s)] \in Quotes THEN StripQuotes(SubSeq(s, 1, Len(s) - 1))
    ELSE s

\* re.findall(r"\w+|'[^']+'|\"[^\"]+\"", s) from token i on, each quoted match
\* already stripped of its quotes (a quoted match of the model holds one
\* identifier, which is then its name)
RECURSIVE findall_types(_, _)
findall_types(s, i) ==
    IF i > Len(s) THEN <<>>
    ELSE IF s[i] \notin Punctuation THEN <<s[i]>> \o findall_types(s, i + 1)
    ELSE IF /\ s[i] \in Quotes
            /\ i + 1 <= Len(s)
            /\ s[i + 1] # s[i]
            /\ \E j \in (i + 2)..Len(s) : s[j] = s[i]
         THEN LET j == CHOOSE k \in (i + 2)..Len(s) :
                           s[k] = s[i] /\ \A m \in (i + 1)..(k - 1) : s[m] # s[i]
              IN StripQuotes(SubSeq(s, i, j)) \o findall_types(s, j + 1)
    ELSE findall_types(s, i + 1)

\* _collect_type_names_from_annotation
collect_type_names_from_annotation(annotation_str) ==
    LET type_string == SelectSeq(annotation_str, LAMBDA t : t # " ")
        types == findall_types(type_string, 1)
    IN {t \in Range(types) : t \notin builtin_types}

\* the loop over parameters.values() of get_imports_to_add
types_to_import(parameters) ==
    UNION {collect_type_names_from_annotation(kv.value.type) : kv \in Range(parameters)}

\* GatherImportsVisitor.object_mapping: (module, name) pairs imported with
\* `from module import name`
object_mapping(module) ==
    UNION {{<<imp.module, imp.names[k]>> : k \in 1..Len(imp.names)} :
              imp \in Range(ImportFroms(module))}

\* types_to_modules.get(type_name, DEFAULT_MODULE)
module_of(type_to_module, type_name) ==
    IF type_name \in KeySet(type_to_module)
    THEN DictGet(type_to_module, type_name)
    ELSE DEFAULT_MODULE

\* the last loop of get_imports_to_add over the type names in iteration order
RECURSIVE needed_imports_loop(_, _, _, _)
needed_imports_loop(needed_imports, order, type_to_module, existing) ==
    IF order = <<>> THEN needed_imports
    ELSE LET type_name == Head(order)
             module == module_of(type_to_module, type_name)
             before == IF module \in KeySet(needed_imports)
                       THEN DictGet(needed_imports, module) ELSE <<>>
         IN needed_imports_loop(
                IF <<module, type_name>> \notin existing
                THEN DictPut(needed_imports, module, Append(before, type_name))
                ELSE needed_imports,
                Tail(order), type_to_module, existing)

\* get_imports_to_add; order is the iteration order of the set types_to_import
get_imports_to_add(parameters, parameters_module, inference_client_module, order) ==
    needed_imports_loop(<<>>, order,
                        ModulesCollector(<<>>, parameters_module.body),
                        object_mapping(inference_client_module))

\* cst.parse_module(_generate_import_statements(import_dict)).body
generate_import_statements(import_dict) ==
    [i \in 1..Len(import_dict) |->
        IF import_dict[i].value # <<>>
        THEN SimpleStatementLine(<<ImportFrom(import_dict[i].key, import_dict[i].value)>>)
        ELSE SimpleStatementLine(<<Import(import_dict[i].key)>>)]

----------------------------------------------------------------------------
(* Tree transformers *)

\* one line of a docstring
Line(indent, text) == [indent |-> indent, text |-> text]

\* str.lower() of the section headers of the model
Lower(word) ==
    CASE word = "Args:" -> "args:"
      [] word = "ARGS:" -> "args:"
      [] word = "Returns:" -> "returns:"
      [] word = "Raises:" -> "raises:"
      [] word = "Example:" -> "example:"
      [] word = "Examples:" -> "examples:"
      [] OTHER -> word

\* line.strip().lower() in headers
LineIn(line, headers) == Len(line.text) = 1 /\ Lower(line.text[1]) \in headers

\* line.strip() == ""
IsBlank(line) == line.text = <<"">>

TerminalHeaders == {"returns:", "raises:", "examples:", "example:"}

\* next(i for i in candidates if ..., default): the least index of a set
First(candidates, default) ==
    IF candidates = {} THEN default
    ELSE CHOOSE i \in candidates : \A j \in candidates : i <= j

\* list.insert / slice assignment lines[at:at] = new, at counted from 0
InsertAt(lines, at, new) ==
    SubSeq(lines, 1, at) \o new \o SubSeq(lines, at + 1, Len(lines))

\* str.replace("Optional[", "")
RECURSIVE RemoveOptional(_)
RemoveOptional(type) ==
    IF Len(type) < 2 THEN type
    ELSE IF type[1] = "Optional" /\ type[2] = "["
         THEN RemoveOptional(SubSeq(type, 3, Len(type)))
    ELSE <<type[1]>> \o RemoveOptional(Tail(type))

\* str.rstrip("]")
RECURSIVE RStripBracket(_)
RStripBracket(type) ==
    IF type # <<>> /\ type[Len(type)] = "]"
    THEN RStripBracket(SubSeq(type, 1, Len(type) - 1))
    ELSE type

\* "Optional[" in type
HasOptional(type) == \E i \in 1..(Len(type) - 1) : type[i] = "Optional" /\ type[i + 1] = "["

\* the two lines of one param_doc of _update_docstring_content
param_doc(indentation, param_name, param_info) ==
    LET param_type_str == RStripBracket(RemoveOptional(param_info.type))
        optional_str == IF HasOptional(param_info.type) THEN "*optional*" ELSE ""
    IN << Line(indentation, <<"param", param_name, param_type_str, optional_str>>),
          Line(indentation + 4,
               IF param_info.docstring = <<>> THEN <<"">>
               ELSE <<"description", param_info.docstring>>) >>

\* AddParameters._update_docstring_content, on the lines of the docstring;
\* indices count from 0 as in the source
update_docstring_content(docstring_lines, missing_params) ==
    LET n == Len(docstring_lines)
        found == {i \in 0..(n - 1) : LineIn(docstring_lines[i + 1], {"args:"})}
        no_args == found = {}
        at_header == First({i \in 0..(n - 1) : LineIn(docstring_lines[i + 1], TerminalHeaders)}, n)
        lines == IF no_args THEN InsertAt(docstring_lines, at_header, <<Line(0, <<"Args:">>)>>)
                 ELSE docstring_lines
        args_index == IF no_args THEN at_header ELSE First(found, 0)
        insertion_index ==
            IF no_args THEN at_header + 1
            ELSE First({i \in (args_index + 1)..(n - 1) :
                           /\ IsBlank(docstring_lines[i + 1])
                           /\ i + 1 < n
                           /\ LineIn(docstring_lines[i + 2], TerminalHeaders)}, n)
        indentation == lines[args_index + 1].indent + 4
        param_docs == Flatten([i \in 1..Len(missing_params) |->
                                  param_doc(indentation, missing_params[i].key,
                                            missing_params[i].value)])
    IN InsertAt(lines, insertion_index, param_docs)

\* AddParameters._update_docstring: a body that does not start with a string
\* literal (docstring <<>>) is returned as it is
update_docstring(docstring, missing_params) ==
    IF docstring = <<>> THEN docstring
    ELSE update_docstring_content(docstring, missing_params)

\* AddParameters._update_parameters: the new kwonly_params
update_parameters(node, missing_params) ==
    LET existing_args == {p.name : p \in Range(node.params \o node.kwonly_params)}
        new == SelectSeq(missing_params, LAMBDA kv : kv.key \notin existing_args)
    IN node.kwonly_params \o [i \in 1..Len(new) |-> Param(new[i].key, new[i].value.type)]

\* AddParameters.leave_FunctionDef
leave_FunctionDef(node, method_name, missing_params) ==
    IF node.name = method_name
    THEN [node EXCEPT !.kwonly_params = update_parameters(node, missing_params),
                      !.docstring = update_docstring(node.docstring, missing_params)]
    ELSE node

\* module.visit(AddParameters(method_name, missing_params))
AddParameters(module, method_name, missing_params) ==
    Module([i \in 1..Len(module.body) |->
        LET st == module.body[i]
        IN IF st.type = "ClassDef"
           THEN [st EXCEPT !.body =
                    [j \in 1..Len(st.body) |->
                        IF st.body[j].type = "FunctionDef"
                        THEN leave_FunctionDef(st.body[j], method_name, missing_params)
                        ELSE st.body[j]]]
           ELSE st])

\* the statement stops the scan of AddImports.leave_Module
StopsImportBlock(stmt) ==
    \/ stmt.type # "SimpleStatementLine"
    \/ stmt.body[1].type \notin {"Import", "ImportFrom"}

\* the insertion index AddImports.leave_Module computes
insertion_index_of(body) ==
    First({idx \in 0..(Len(body) - 1) : StopsImportBlock(body[idx + 1])}, 0)

\* AddImports.leave_Module, self.added being False
leave_Module(module, imports_to_add) ==
    Module(InsertAt(module.body, insertion_index_of(module.body), imports_to_add))

----------------------------------------------------------------------------
(* _check_parameters and its environment *)

VARIABLES
    update,                   \* the --update flag
    method_params,            \* dict method name -> *Parameters class name
    types_files,              \* INFERENCE_TYPES_PATH/<method>.py: method name -> module
    client_file,              \* content of INFERENCE_CLIENT_FILE
    step,                     \* position inside _check_parameters
    task_index,               \* position of the loop over method_params, from 1
    inference_client_module,  \* local of _check_parameters
    modified_module,          \* local of _check_parameters; the tree under transformation
    imports,                  \* local of _check_parameters
    logs,                     \* local of _check_parameters
    has_changes,              \* local of _check_parameters
    missing_params,           \* what check_missing_parameters returned last
    imports_to_add,           \* the statements handed to AddImports
    formatted_source_code,    \* local of _check_parameters
    exit_status,              \* argument of exit(), -1 while running
    synthesized,              \* (module, name) pairs get_imports_to_add has returned
    missing_found,            \* a task of this run had a non-empty missing set
    writes,                   \* number of INFERENCE_CLIENT_FILE.write_text calls
    parameters_module,        \* argument of check_missing_parameters
    method_name,              \* argument of check_missing_parameters
    parameter_type_name,      \* argument of check_missing_parameters
    phase,                    \* check / rewrite / check again of one callable
    added,                    \* AddImports.added
    original_module           \* the tree before AddImports visited it

scriptVars == <<update, method_params, types_files, client_file, step, task_index,
                inference_client_module, modified_module, imports, logs, has_changes,
                missing_params, imports_to_add, formatted_source_code, exit_status,
                synthesized, missing_found, writes, parameters_module, method_name,
                parameter_type_name, phase, added, original_module>>

runInputs == <<update, method_params, types_files>>

unitVars == <<parameters_module, method_name, parameter_type_name, phase, added,
              original_module>>

\* format_source_code raises: no Ruff executable (FileNotFoundError), or a
\* Ruff step exits non-zero (RuntimeError)
RuffOutcomes == {"not_found", "check_failed", "format_failed", "formatted"}

\* what Ruff leaves in tmp.py for a module
Ruff(module) == [ruff |-> module]

\* the (module, name) pairs of a dict of needed imports
Pairs(needed_imports) ==
    UNION {{<<kv.key, kv.value[k]>> : k \in 1..Len(kv.value)} : kv \in Range(needed_imports)}

\* lines 383-389: the state before the loop
parse_client ==
    /\ step = "start"
    /\ imports' = <<>>
    /\ logs' = <<>>
    /\ inference_client_module' = client_file
    /\ modified_module' = client_file
    /\ has_changes' = FALSE
    /\ task_index' = 1
    /\ step' = "loop"
    /\ UNCHANGED <<runInputs, client_file, missing_params, imports_to_add,
                   formatted_source_code, exit_status, synthesized, missing_found,
                   writes, unitVars>>

\* a log line for every task with missing parameters, whatever the mode
LogsAfterAlways(current, is_update, name) == Append(current, name)

\* `logs` after a task with missing parameters
LogsAfter(current, is_update, name) ==
    IF is_update THEN current ELSE Append(current, name)

\* lines 390-409: one iteration of the loop over method_params
check_task ==
    /\ step = "loop"
    /\ task_index <= Len(method_params)
    /\ task_index' = task_index + 1
    /\ LET name == method_params[task_index].key
           type_name == method_params[task_index].value
           module == types_files[name]
           missing == check_missing_parameters(modified_module, module, name, type_name)
       IN /\ missing_params' = missing
          /\ IF missing = <<>>
             THEN UNCHANGED <<imports, modified_module, has_changes, logs,
                              synthesized, missing_found>>
             ELSE /\ missing_found' = TRUE
                  /\ logs' = LogsAfter(logs, update, name)
                  /\ IF update
                     THEN \E order \in Orderings(types_to_import(missing)) :
                            LET needed_imports ==
                                    get_imports_to_add(missing, module, modified_module, order)
                            IN /\ imports' = DictUpdate(imports, needed_imports)
                               /\ synthesized' = synthesized \cup Pairs(needed_imports)
                               /\ modified_module' = AddParameters(modified_module, name, missing)
                               /\ has_changes' = TRUE
                     ELSE UNCHANGED <<imports, modified_module, has_changes, synthesized>>
    /\ UNCHANGED <<runInputs, client_file, step, inference_client_module, imports_to_add,
                   formatted_source_code, exit_status, writes, unitVars>>

\* lines 411-416: after the loop, the imports are added to a changed module
add_imports ==
    /\ step = "loop"
    /\ task_index > Len(method_params)
    /\ IF has_changes
       THEN /\ step' = "format"
            /\ IF imports # <<>>
               THEN /\ imports_to_add' = generate_import_statements(imports)
                    /\ modified_module' =
                           leave_Module(modified_module, generate_import_statements(imports))
               ELSE UNCHANGED <<imports_to_add, modified_module>>
       ELSE /\ step' = "report"
            /\ UNCHANGED <<imports_to_add, modified_module>>
    /\ UNCHANGED <<runInputs, client_file, task_index, inference_client_module, imports,
                   logs, has_changes, missing_params, formatted_source_code, exit_status,
                   synthesized, missing_found, writes, unitVars>>

\* subprocess.run without check=True: a Ruff step that exits non-zero goes unnoticed
AfterRuffUnchecked(outcome) == IF outcome = "not_found" THEN "raised" ELSE "write"

\* where _check_parameters continues after format_source_code: it returns the
\* text when both Ruff steps succeeded and raises otherwise
AfterRuff(outcome) == IF outcome = "formatted" THEN "write" ELSE "raised"

\* line 418: format_source_code(modified_module.code)
format_source_code ==
    /\ step = "format"
    /\ \E outcome \in RuffOutcomes :
          /\ step' = AfterRuff(outcome)
          /\ formatted_source_code' =
                 IF outcome = "formatted" THEN Ruff(modified_module)
                 ELSE formatted_source_code
    /\ UNCHANGED <<runInputs, client_file, task_index, inference_client_module,
                   modified_module, imports, logs, has_changes, missing_params,
                   imports_to_add, exit_status, synthesized, missing_found, writes,
                   unitVars>>

\* line 419: INFERENCE_CLIENT_FILE.write_text(formatted_source_code)
write_client ==
    /\ step = "write"
    /\ client_file' = formatted_source_code
    /\ writes' = writes + 1
    /\ step' = "report"
    /\ UNCHANGED <<runInputs, task_index, inference_client_module, modified_module,
                   imports, logs, has_changes, missing_params, imports_to_add,
                   formatted_source_code, exit_status, synthesized, missing_found,
                   unitVars>>

\* lines 421-440: exit(1) when there are logs, exit(0) otherwise
report ==
    /\ step = "report"
    /\ exit_status' = IF Len(logs) > 0 THEN 1 ELSE 0
    /\ step' = "exited"
    /\ UNCHANGED <<runInputs, client_file, task_index, inference_client_module,
                   modified_module, imports, logs, has_changes, missing_params,
                   imports_to_add, formatted_source_code, synthesized, missing_found,
                   writes, unitVars>>

RunNext ==
    \/ parse_client
    \/ check_task
    \/ add_imports
    \/ format_source_code
    \/ write_client
    \/ report

\* a caller computes check_missing_parameters for one callable
check_callable ==
    /\ phase \in {"parsed", "rewritten"}
    /\ missing_params' = check_missing_parameters(modified_module, parameters_module,
                                                  method_name, parameter_type_name)
    /\ phase' = IF phase = "parsed" THEN "checked" ELSE "rechecked"
    /\ UNCHANGED <<runInputs, client_file, step, task_index, inference_client_module,
                   modified_module, imports, logs, has_changes, imports_to_add,
                   formatted_source_code, exit_status, synthesized, missing_found, writes,
                   parameters_module, method_name, parameter_type_name, added,
                   original_module>>

\* the caller applies AddParameters with the missing parameters just computed
rewrite_callable ==
    /\ phase = "checked"
    /\ modified_module' = AddParameters(modified_module, method_name, missing_params)
    /\ phase' = "rewritten"
    /\ UNCHANGED <<runInputs, client_file, step, task_index, inference_client_module,
                   imports, logs, has_changes, missing_params, imports_to_add,
                   formatted_source_code, exit_status, synthesized, missing_found, writes,
                   parameters_module, method_name, parameter_type_name, added,
                   original_module>>

CallableNext ==
    \/ check_callable
    \/ rewrite_callable

\* module.visit(AddImports(imports_to_add)): the first visit inserts
visit_AddImports ==
    /\ phase = "imports"
    /\ ~added
    /\ modified_module' = leave_Module(modified_module, imports_to_add)
    /\ added' = TRUE
    /\ UNCHANGED <<runInputs, client_file, step, task_index, inference_client_module,
                   imports, logs, has_changes, missing_params, imports_to_add,
                   formatted_source_code, exit_status, synthesized, missing_found, writes,
                   parameters_module, method_name, parameter_type_name, phase,
                   original_module>>

\* a later visit of the same transformer returns the module as it is
visit_AddImports_again ==
    /\ phase = "imports"
    /\ added
    /\ phase' = "visited"
    /\ UNCHANGED <<runInputs, client_file, step, task_index, inference_client_module,
                   modified_module, imports, logs, has_changes, missing_params,
                   imports_to_add, formatted_source_code, exit_status, synthesized,
                   missing_found, writes, parameters_module, method_name,
                   parameter_type_name, added, original_module>>

ImportsNext ==
    \/ visit_AddImports
    \/ visit_AddImports_again

----------------------------------------------------------------------------
(* The annotation of one field, as the import synthesis and the docstring
   update read it *)

VARIABLES
    given_param,      \* param_info of one missing parameter: its type and docstring
    given_docstring,  \* the lines of the docstring handed to _update_docstring_content
    type_names,       \* what _collect_type_names_from_annotation returned
    new_docstring,    \* what _update_docstring_content returned
    applied           \* which of the two functions have been called

fieldVars == <<given_param, given_docstring, type_names, new_docstring, applied>>

\* line 312: _collect_type_names_from_annotation(param_info["type"])
collect_type_names ==
    /\ "collect" \notin applied
    /\ type_names' = collect_type_names_from_annotation(given_param.type)
    /\ applied' = applied \cup {"collect"}
    /\ UNCHANGED <<given_param, given_docstring, new_docstring>>

\* line 181: _update_docstring_content(docstring) of an AddParameters whose
\* missing_params is {"x": param_info}
update_docstring_call ==
    /\ "document" \notin applied
    /\ new_docstring' =
           update_docstring_content(given_docstring,
                                    <<[key |-> "x", value |-> given_param]>>)
    /\ applied' = applied \cup {"document"}
    /\ UNCHANGED <<given_param, given_docstring, type_names>>

FieldNext ==
    \/ collect_type_names
    \/ update_docstring_call

\* no annotation is under examination
FieldIdle ==
    /\ given_param = [type |-> <<"str">>, docstring |-> <<>>]
    /\ given_docstring = <<>>
    /\ type_names = {}
    /\ new_docstring = <<>>
    /\ applied = {}

----------------------------------------------------------------------------
(* Specifications *)

vars == <<authVars, profileVars, scriptVars, fieldVars>>

\* no thread calls get_token
AuthIdle ==
    /\ threads = {}
    /\ is_google_colab = FALSE
    /\ is_colab_enterprise = FALSE
    /\ colab_importable = FALSE
    /\ HF_TOKEN = None
    /\ HUGGING_FACE_HUB_TOKEN = None
    /\ HF_TOKEN_PATH = None
    /\ AuthStart

\* the profile store is not used
ProfileIdle ==
    /\ profiles_exists = FALSE
    /\ profiles_ini = EmptyDict
    /\ profile_saved = EmptyDict
    /\ profile_op = "none"
    /\ profile_name = "default"
    /\ profile_result = Pending
    /\ profile_raised = FALSE
    /\ profile_ops = 0

\* the locals of _check_parameters before it runs
RunStart ==
    /\ step = "start"
    /\ task_index = 1
    /\ inference_client_module = Module(<<>>)
    /\ imports = <<>>
    /\ logs = <<>>
    /\ has_changes = FALSE
    /\ missing_params = <<>>
    /\ imports_to_add = <<>>
    /\ formatted_source_code = Ruff(Module(<<>>))
    /\ exit_status = -1
    /\ synthesized = {}
    /\ missing_found = FALSE
    /\ writes = 0

\* _check_parameters is not run
RunIdle ==
    /\ update = FALSE
    /\ method_params = <<>>
    /\ types_files = EmptyDict
    /\ client_file = Module(<<>>)
    /\ RunStart

\* no single callable or module is under transformation
UnitIdle ==
    /\ parameters_module = Module(<<>>)
    /\ method_name = "task"
    /\ parameter_type_name = "TaskParameters"
    /\ phase = "idle"
    /\ added = FALSE
    /\ original_module = Module(<<>>)

AuthStep == AuthNext /\ UNCHANGED <<profileVars, scriptVars, fieldVars>>

\* several threads in one process, a small environment
VaultInit ==
    /\ threads = 1..NumThreads
    /\ is_google_colab \in BOOLEAN
    /\ is_colab_enterprise \in BOOLEAN
    /\ colab_importable \in BOOLEAN
    /\ HF_TOKEN \in {None, <<"P">>}
    /\ HUGGING_FACE_HUB_TOKEN = None
    /\ HF_TOKEN_PATH \in {None, <<"Y">>}
    /\ AuthStart
    /\ ProfileIdle /\ RunIdle /\ UnitIdle /\ modified_module = Module(<<>>)
    /\ FieldIdle

VaultSpec == VaultInit /\ [][AuthStep]_vars

\* one thread, every combination of the three sources
ResolveInit ==
    /\ threads = {1}
    /\ is_google_colab \in BOOLEAN
    /\ is_colab_enterprise = FALSE
    /\ colab_importable = TRUE
    /\ HF_TOKEN \in {None} \cup StringsUpTo({"P", " ", "\n"}, MaxLen)
    /\ HUGGING_FACE_HUB_TOKEN \in {None, <<>>, <<"X">>, <<"X", "\r">>, <<" ">>}
    /\ HF_TOKEN_PATH \in {None, <<"Y">>, <<"Y", "\n">>, <<"\n">>}
    /\ AuthStart
    /\ ProfileIdle /\ RunIdle /\ UnitIdle /\ modified_module = Module(<<>>)
    /\ FieldIdle

ResolveSpec == ResolveInit /\ [][AuthStep]_vars

ProfileStep == ProfileNext /\ UNCHANGED <<authVars, scriptVars, fieldVars>>

\* a process that only uses the profile store
ProfileInit ==
    /\ ProfileStart
    /\ AuthIdle /\ RunIdle /\ UnitIdle /\ modified_module = Module(<<>>)
    /\ FieldIdle

ProfileSpec == ProfileInit /\ [][ProfileStep]_vars

\* the tasks of a run, their *Parameters classes and the annotations of their fields
TaskNames == <<"task_a", "task_b", "task_c", "task_d">>
TypeNames == <<"TaskAParameters", "TaskBParameters", "TaskCParameters", "TaskDParameters">>

OptionalOf(name) == <<"Optional", "[", name, "]">>

RunAnnotations == {<<"str">>, OptionalOf("Alpha"), OptionalOf("Beta")}

\* the body of a *Parameters class of a run: no field, or the field x
RunFields == {<<>>} \cup {<<SimpleStatementLine(<<AnnAssign("x", ann)>>)>> : ann \in RunAnnotations}

\* a docstring with an Args section
DocArgs ==
    << Line(0, <<"Summary">>), Line(0, <<"">>), Line(0, <<"Args:">>),
       Line(4, <<"inputs">>), Line(0, <<"">>), Line(0, <<"Returns:">>), Line(4, <<"result">>) >>

\* a docstring without an Args section
DocNoArgs == << Line(0, <<"Summary">>), Line(0, <<"">>), Line(0, <<"Returns:">>) >>

\* a run over at most MaxTasks tasks: the method of each task has the
\* parameter x or not, the client imports Optional or not
RunInit ==
    /\ update \in BOOLEAN
    /\ \E n \in 0..MaxTasks :
          /\ method_params = [i \in 1..n |-> [key |-> TaskNames[i], value |-> TypeNames[i]]]
          /\ \E fields \in [1..n -> RunFields] :
                types_files =
                    [name \in {TaskNames[i] : i \in 1..n} |->
                        LET i == CHOOSE k \in 1..n : TaskNames[k] = name
                        IN Module(<< SimpleStatementLine(<<ImportFrom("typing", <<"Optional">>)>>),
                                     ClassDef(TypeNames[i], fields[i]) >>)]
          /\ \E has_x \in [1..n -> BOOLEAN], typing \in BOOLEAN :
                client_file =
                    Module(<<SimpleStatementLine(<<Import("os")>>)>>
                           \o (IF typing
                               THEN <<SimpleStatementLine(<<ImportFrom("typing", <<"Optional">>)>>)>>
                               ELSE <<>>)
                           \o << ClassDef("InferenceClient",
                                    [i \in 1..n |->
                                        FunctionDef(TaskNames[i],
                                            <<Param("self", <<>>), Param("inputs", <<"str">>)>>,
                                            IF has_x[i] THEN <<Param("x", <<"str">>)>> ELSE <<>>,
                                            DocArgs)]) >>)
    /\ RunStart
    /\ modified_module = Module(<<>>)
    /\ UnitIdle
    /\ AuthIdle /\ ProfileIdle /\ FieldIdle

RunStep == RunNext /\ UNCHANGED <<authVars, profileVars, fieldVars>>

RunSpec == RunInit /\ [][RunStep]_vars

\* the statements a *Parameters class body is drawn from
BodyStatements ==
    { SimpleStatementLine(<<AnnAssign("x", <<"str">>)>>),
      SimpleStatementLine(<<AnnAssign("x", OptionalOf("Foo"))>>),
      SimpleStatementLine(<<AnnAssign("y", OptionalOf("Foo"))>>),
      SimpleStatementLine(<<AnnAssign("self", <<"str">>)>>),
      SimpleStatementLine(<<ExprString(<<"d">>)>>),
      SimpleStatementLine(<<ExprString(<<" ", "e", "\n">>)>>),
      SimpleStatementLine(<<Pass>>) }

\* all sequences over S of length at most n
RECURSIVE SeqsUpTo(_, _)
SeqsUpTo(S, n) ==
    IF n = 0 THEN {<<>>}
    ELSE LET shorter == SeqsUpTo(S, n - 1)
         IN shorter \cup {Append(q, x) : q \in {r \in shorter : Len(r) = n - 1}, x \in S}

\* one callable `task` of the client against one declaration TaskParameters
CallableInit ==
    /\ method_name = "task"
    /\ parameter_type_name = "TaskParameters"
    /\ \E body \in SeqsUpTo(BodyStatements, MaxBody) :
          parameters_module =
              Module(<< SimpleStatementLine(<<ImportFrom("typing", <<"Optional">>)>>),
                        ClassDef("OtherParameters",
                                 <<SimpleStatementLine(<<AnnAssign("decoy", <<"str">>)>>)>>),
                        ClassDef("TaskParameters", body) >>)
    /\ \E params \in {<<>>, <<Param("self", <<>>)>>,
                      <<Param("self", <<>>), Param("x", <<"str">>)>>},
          kwonly \in {<<>>, <<Param("y", <<"str">>)>>},
          doc \in {<<>>, DocNoArgs, DocArgs},
          overload \in BOOLEAN :
          modified_module =
              Module(<< SimpleStatementLine(<<Import("os")>>),
                        ClassDef("InferenceClient",
                            (IF overload
                             THEN <<FunctionDef("task", <<Param("self", <<>>)>>,
                                                <<Param("x", <<"str">>)>>, <<>>)>>
                             ELSE <<>>)
                            \o << FunctionDef("task", params, kwonly, doc),
                                  FunctionDef("other",
                                      <<Param("self", <<>>), Param("x", <<"str">>),
                                        Param("y", <<"str">>), Param("decoy", <<"str">>)>>,
                                      <<>>, <<>>) >>) >>)
    /\ phase = "parsed"
    /\ added = FALSE
    /\ original_module = modified_module
    /\ RunIdle
    /\ AuthIdle /\ ProfileIdle /\ FieldIdle

CallableStep == CallableNext /\ UNCHANGED <<authVars, profileVars, fieldVars>>

CallableSpec == CallableInit /\ [][CallableStep]_vars

\* the top-level statements a module is drawn from
TopStatements ==
    { SimpleStatementLine(<<Import("os")>>),
      SimpleStatementLine(<<ImportFrom("typing", <<"Optional">>)>>),
      SimpleStatementLine(<<ExprString(<<"d">>)>>),
      SimpleStatementLine(<<Pass>>),
      ClassDef("InferenceClient", <<>>) }

ImportLists ==
    { <<SimpleStatementLine(<<ImportFrom(DEFAULT_MODULE, <<"Alpha">>)>>)>>,
      <<SimpleStatementLine(<<ImportFrom(DEFAULT_MODULE, <<"Alpha", "Beta">>)>>),
        SimpleStatementLine(<<ImportFrom("typing", <<"Any">>)>>)>> }

\* one AddImports transformer and one module
ImportsInit ==
    /\ \E body \in SeqsUpTo(TopStatements, MaxStmts) : modified_module = Module(body)
    /\ original_module = modified_module
    /\ imports_to_add \in ImportLists
    /\ phase = "imports"
    /\ added = FALSE
    /\ parameters_module = Module(<<>>)
    /\ method_name = "task"
    /\ parameter_type_name = "TaskParameters"
    /\ update = FALSE
    /\ method_params = <<>>
    /\ types_files = EmptyDict
    /\ client_file = Module(<<>>)
    /\ step = "start"
    /\ task_index = 1
    /\ inference_client_module = Module(<<>>)
    /\ imports = <<>>
    /\ logs = <<>>
    /\ has_changes = FALSE
    /\ missing_params = <<>>
    /\ formatted_source_code = Ruff(Module(<<>>))
    /\ exit_status = -1
    /\ synthesized = {}
    /\ missing_found = FALSE
    /\ writes = 0
    /\ AuthIdle /\ ProfileIdle /\ FieldIdle

ImportsStep == ImportsNext /\ UNCHANGED <<authVars, profileVars, fieldVars>>

ImportsSpec == ImportsInit /\ [][ImportsStep]_vars

\* the subscripted names an annotation is built with
Wrappers == {<<"Optional", "[">>, <<"List", "[">>, <<"Dict", "[", "str", ",", " ">>}

\* the annotations with at most n levels of subscripts around a builtin, a
\* class of the generated types, or a forward reference to one
RECURSIVE AnnotationsUpTo(_)
AnnotationsUpTo(n) ==
    IF n = 0
    THEN {<<"str">>, <<"int">>, <<"ChatMessage">>, <<"'", "ChatMessage", "'">>}
    ELSE LET inner == AnnotationsUpTo(n - 1)
         IN AnnotationsUpTo(0) \cup {w \o a \o <<"]">> : w \in Wrappers, a \in inner}

\* one missing parameter x, its annotation and description, and the
\* docstring of the method that lacks it
FieldInit ==
    /\ given_param \in [type : AnnotationsUpTo(MaxDepth), docstring : {<<>>, <<"d">>}]
    /\ given_docstring \in {DocArgs, DocNoArgs}
    /\ type_names = {}
    /\ new_docstring = <<>>
    /\ applied = {}
    /\ AuthIdle /\ ProfileIdle /\ RunIdle /\ UnitIdle /\ modified_module = Module(<<>>)

FieldStep == FieldNext /\ UNCHANGED <<authVars, profileVars, scriptVars>>

FieldSpec == FieldInit /\ [][FieldStep]_vars

----------------------------------------------------------------------------
(* Claims on token resolution *)

\* what a completed userdata.get leaves as the cached outcome
CachedOutcome(outcome) == IF outcome \in VaultErrors THEN None ELSE clean_token(outcome)

\* C1: under any interleaving of the threads, userdata.get("HF_TOKEN") is
\* invoked at most once, and every call of get_token that started after that
\* lookup completed gets the lookup's cached outcome (None included) from
\* _get_token_from_google_colab.
C1_VaultQueriedOnce ==
    /\ vault_calls <= 1
    /\ Len(vault_log) <= 1
    /\ \A t \in threads :
          (after_lookup[t] /\ from_colab[t] # Pending)
              => from_colab[t] = CachedOutcome(vault_log[1])

\* C1 witness: two calls got the cached outcome of the single lookup, one of
\* them having started after the lookup completed
C1_Witness ==
    /\ vault_calls = 1
    /\ \E t, u \in threads :
          /\ t # u
          /\ after_lookup[t]
          /\ pc[t] = "done" /\ pc[u] = "done"
          /\ from_colab[t] = <<"V">> /\ from_colab[u] = <<"V">>

\* the first candidate of cs, taken in order, that is present after
\* normalization; None when there is none
RECURSIVE FirstPresent(_)
FirstPresent(cs) ==
    IF cs = <<>> THEN None
    ELSE IF clean_token(Head(cs)) # None THEN clean_token(Head(cs))
    ELSE FirstPresent(Tail(cs))

\* C2: get_token returns the first non-absent candidate in the order vault
\* secret, HF_TOKEN, HUGGING_FACE_HUB_TOKEN, token file, and None when all are
\* absent; with no vault, HF_TOKEN unset, the alias "X" and the file "Y" the
\* result is "X".
C2_FirstPresentCandidate ==
    \A t \in threads :
        pc[t] = "done" =>
            token[t] = FirstPresent(<<from_colab[t], HF_TOKEN,
                                      HUGGING_FACE_HUB_TOKEN, HF_TOKEN_PATH>>)

\* C3: a whitespace-only HF_TOKEN is absent, so with a non-empty alias the
\* environment source resolves to the normalized alias.
C3_BlankPrimaryFallsBackToAlias ==
    \A t \in threads :
        ( /\ from_environment[t] # Pending
          /\ HF_TOKEN # None
          /\ clean_token(HF_TOKEN) = None
          /\ clean_token(HUGGING_FACE_HUB_TOKEN) # None )
            => from_environment[t] = clean_token(HUGGING_FACE_HUB_TOKEN)

\* C4: when userdata.get raises one of the three vault errors, nothing
\* propagates out of get_token, _get_token_from_google_colab returns None,
\* the None outcome is recorded as checked, the vault is not asked again, the
\* lock is released and the call resolves from the environment, then the file.
C4_VaultErrorsAbsorbed ==
    \A t \in threads :
        vault_failed[t] =>
            /\ pc[t] # "raised"
            /\ vault_calls = 1
            /\ pc[t] \in {"environment", "file", "done", "idle"} =>
                  /\ from_colab[t] = None
                  /\ IS_GOOGLE_COLAB_CHECKED
                  /\ GOOGLE_COLAB_SECRET = None
                  /\ GOOGLE_COLAB_SECRET_LOCK # t
            /\ pc[t] \in {"done", "idle"} =>
                  token[t] = Or(get_token_from_environment(HF_TOKEN, HUGGING_FACE_HUB_TOKEN),
                                get_token_from_file(HF_TOKEN_PATH))

\* C4 witness: a call whose lookup raised has resolved its token from the file
C4_Witness ==
    \E t \in threads :
        /\ vault_failed[t]
        /\ pc[t] = "done"
        /\ from_environment[t] = None
        /\ token[t] = <<"Y">>

----------------------------------------------------------------------------
(* Claims on the profile store *)

\* C8: after any sequence of saves, _get_token_from_profile(p) is the
\* normalized token of the last completed save under p and None for a name
\* never saved; a save under one name leaves the tokens of the others alone.
C8_ProfileRoundTrip ==
    /\ \A p \in ProfileNames :
          get_token_from_profile(p) =
              IF p \in DOMAIN profile_saved THEN clean_token(profile_saved[p]) ELSE None
    /\ profile_op = "get" =>
          profile_result =
              IF profile_name \in DOMAIN profile_saved
              THEN clean_token(profile_saved[profile_name]) ELSE None

----------------------------------------------------------------------------
(* Claims on the parameter check of one callable *)

\* the body of the declaration named parameter_type_name
DeclarationBody ==
    LET classes == SelectSeq(ClassDefs(parameters_module),
                             LAMBDA c : c.name = parameter_type_name)
    IN IF classes = <<>> THEN <<>> ELSE classes[1].body

\* the i-th statement of the declaration is a typed attribute
IsField(i) ==
    /\ DeclarationBody[i].type = "SimpleStatementLine"
    /\ DeclarationBody[i].body[1].type = "AnnAssign"

FieldName(i) == DeclarationBody[i].body[1].target

\* the description of the i-th statement: the string literal right after it
Description(i) ==
    IF /\ i < Len(DeclarationBody)
       /\ DeclarationBody[i + 1].type = "SimpleStatementLine"
       /\ DeclarationBody[i + 1].body[1].type = "Expr"
    THEN Strip(DeclarationBody[i + 1].body[1].value)
    ELSE <<>>

\* no two fields of the declaration share a name
UniqueFieldNames ==
    \A i, j \in 1..Len(DeclarationBody) :
        (IsField(i) /\ IsField(j) /\ FieldName(i) = FieldName(j)) => i = j

\* positional and keyword-only parameter names of the callable, but "self"
ExistingNames ==
    {q.name : q \in UNION {Range(f.params) \cup Range(f.kwonly_params) :
                              f \in {g \in Range(FunctionDefs(modified_module)) :
                                        g.name = method_name}}} \ {"self"}

\* the fields of the declaration that the callable lacks, in declaration order
ExpectedMissing ==
    LET at == SelectSeq([i \in 1..Len(DeclarationBody) |-> i],
                        LAMBDA i : IsField(i) /\ FieldName(i) \notin ExistingNames)
    IN [k \in 1..Len(at) |->
           [key |-> FieldName(at[k]),
            value |-> [type |-> DeclarationBody[at[k]].body[1].annotation,
                       docstring |-> Description(at[k])]]]

\* C5: applying AddParameters once with MissingParams(D, C) and recomputing
\* MissingParams(D, C) on the rewritten module yields the empty set.
C5_RewriteLeavesNothingMissing ==
    phase = "rechecked" => missing_params = <<>>

\* C6: check_missing_parameters returns exactly the fields of the declaration
\* whose names are not positional or keyword-only parameter names of the
\* callable ("self" not counting as one), each with its declared type and
\* description, in declaration order (the declaration's field names being
\* unique).
C6_MissingIsFieldsMinusArgs ==
    (phase \in {"checked", "rechecked"} /\ UniqueFieldNames)
        => missing_params = ExpectedMissing

\* C6 witness: a declaration with the fields x and y, y described, checked
\* against a callable that has x: y alone is missing, with its description
C6_Witness ==
    /\ phase = "checked"
    /\ UniqueFieldNames
    /\ "x" \in ExistingNames
    /\ \E i \in 1..Len(DeclarationBody) : IsField(i) /\ FieldName(i) = "x"
    /\ Len(missing_params) = 1
    /\ missing_params[1].key = "y"
    /\ missing_params[1].value.docstring = <<"e">>

\* the i-th statement is the first typed attribute of its name
IsFirstOccurrence(i) ==
    /\ IsField(i)
    /\ \A j \in 1..(i - 1) : IsField(j) => FieldName(j) # FieldName(i)

\* the fields the callable lacks, each taken from the first statement of its name
ExpectedFirstOccurrences ==
    LET at == SelectSeq([i \in 1..Len(DeclarationBody) |-> i],
                        LAMBDA i : IsFirstOccurrence(i) /\ FieldName(i) \notin ExistingNames)
    IN [k \in 1..Len(at) |->
           [key |-> FieldName(at[k]),
            value |-> [type |-> DeclarationBody[at[k]].body[1].annotation,
                       docstring |-> Description(at[k])]]]

\* C15: when two typed-attribute statements of the declaration share a field
\* name, DataclassFieldCollector keeps the first: the field appears once, at
\* the position of the first statement, with that statement's type and
\* description.
C15_FirstOccurrenceWins ==
    (phase = "checked" /\ ~UniqueFieldNames)
        => missing_params = ExpectedFirstOccurrences

\* the parameter lists and the docstring of the definitions named method_name
Signatures(module) ==
    LET fs == SelectSeq(FunctionDefs(module), LAMBDA f : f.name = method_name)
    IN [i \in 1..Len(fs) |->
           [params |-> fs[i].params, kwonly_params |-> fs[i].kwonly_params,
            docstring |-> fs[i].docstring]]

\* C11: AddParameters applied with an empty missing set leaves the parameter
\* list and the docstring text of the callable as they were, whether or not
\* the docstring has an "Args:" section.
C11_EmptyMissingSetNoEffect ==
    (phase = "rewritten" /\ missing_params = <<>>)
        => Signatures(modified_module) = Signatures(original_module)

----------------------------------------------------------------------------
(* Claims on _check_parameters *)

\* C7: a run that reaches its end exits with status 1 exactly when it is a
\* check-only run in which some task had a non-empty missing set, and with
\* status 0 otherwise.
C7_ExitStatus ==
    step = "exited" =>
        exit_status = IF ~update /\ missing_found THEN 1 ELSE 0

\* C7 witness: a check-only run over two tasks, the second with missing
\* parameters, has exited with status 1
C7_Witness ==
    /\ step = "exited"
    /\ ~update
    /\ Len(method_params) = 2
    /\ missing_params # <<>>
    /\ exit_status = 1

\* C12: the client file is overwritten at most once per run, only in apply
\* mode, only when a task had a non-empty missing set, and only with the text
\* format_source_code returned for the module after both Ruff steps
\* succeeded; a check-only run, and a run in which format_source_code raised,
\* never change the file.
C12_WrittenOnceAfterFormatting ==
    [][(client_file' # client_file \/ writes' # writes) =>
          /\ update
          /\ missing_found
          /\ writes = 0 /\ writes' = 1
          /\ step # "raised"
          /\ formatted_source_code = Ruff(modified_module)
          /\ client_file' = formatted_source_code]_vars

\* C12 witness: an apply run with a missing parameter has exited after one
\* write of the formatted module
C12_Witness ==
    /\ step = "exited"
    /\ update
    /\ missing_found
    /\ writes = 1
    /\ client_file = Ruff(modified_module)
    /\ modified_module # inference_client_module

\* the (module, name) pairs the inserted import statements import
InsertedPairs ==
    UNION {{<<st.body[1].module, st.body[1].names[k]>> : k \in 1..Len(st.body[1].names)} :
              st \in {x \in Range(imports_to_add) : x.body[1].type = "ImportFrom"}}

\* C9: in apply mode, once all tasks are processed, the inserted import
\* statements cover every (module, name) pair get_imports_to_add returned for
\* a task with missing parameters.
C9_ImportsCoverAllTasks ==
    (update /\ step \in {"format", "write", "report", "exited", "raised"})
        => synthesized \subseteq InsertedPairs

----------------------------------------------------------------------------
(* Claims on AddImports *)

\* a top-level statement that is a plain import or an import-from
IsImportStatement(stmt) ==
    /\ stmt.type = "SimpleStatementLine"
    /\ stmt.body[1].type \in {"Import", "ImportFrom"}

\* where the new statements belong: before the first statement that is not
\* an import, at the end of a module of imports only (counted from 0)
ExpectedInsertionIndex(body) ==
    First({i \in 0..(Len(body) - 1) : ~IsImportStatement(body[i + 1])}, Len(body))

\* C10: AddImports inserts the given statements, in their order, right before
\* the first top-level statement that is neither an import nor an
\* import-from, the existing statements keeping their order; in a module of
\* imports only the new statements are appended at the end.
C10_ImportsAfterImportBlock ==
    added =>
        modified_module.body =
            InsertAt(original_module.body, ExpectedInsertionIndex(original_module.body),
                     imports_to_add)

----------------------------------------------------------------------------
(* Claims on the annotation of a field *)

\* the identifiers an annotation refers to
ReferencedNames(type) == {type[i] : i \in 1..Len(type)} \ Punctuation

\* C13: _collect_type_names_from_annotation returns only referenced names
\* that are not builtins and never the Optional wrapper itself: for
\* Optional[str] it returns the empty set, for Optional[ChatMessage] it
\* returns {ChatMessage}.
C13_TypeNamesWithoutOptional ==
    "collect" \in applied =>
        /\ type_names \subseteq ReferencedNames(given_param.type) \ builtin_types
        /\ "Optional" \notin type_names
        /\ given_param.type = OptionalOf("str") => type_names = {}
        /\ given_param.type = OptionalOf("ChatMessage") => type_names = {"ChatMessage"}

\* the whole annotation is Optional[...]
OptionalWrapped(type) ==
    /\ Len(type) >= 3
    /\ type[1] = "Optional" /\ type[2] = "[" /\ type[Len(type)] = "]"

\* the annotation without its one surrounding Optional[...]
BareType(type) ==
    IF OptionalWrapped(type) THEN SubSeq(type, 3, Len(type) - 1) ELSE type

\* the lines of a docstring that open a parameter-doc block
ParamLines(lines) == SelectSeq(lines, LAMBDA l : l.text[1] = "param")

\* C14: in the inserted parameter-doc block the bare type is the annotation
\* with exactly one surrounding Optional[...] removed when present and the
\* unchanged annotation otherwise, and the marker *optional* appears exactly
\* when the whole annotation is Optional-wrapped.
C14_BareTypeAndMarker ==
    "document" \in applied =>
        /\ Len(ParamLines(new_docstring)) = 1
        /\ ParamLines(new_docstring)[1].text =
               << "param", "x", BareType(given_param.type),
                  IF OptionalWrapped(given_param.type) THEN "*optional*" ELSE "" >>

====
